---- MODULE Spec2Model ----
(***************************************************************************)
(* TMP11x_7Semi: the TMP116/TMP117 driver of                               *)
(* src/examples/One_Shot_Read/One_Shot_Read.ino (the file carries the      *)
(* example sketch, 7Semi_TMP11x.h and 7Semi_TMP11x.cpp).                   *)
(*                                                                         *)
(* The model is the driver object (its stored address), the sensor on the  *)
(* two-wire bus (a file of 16-bit registers) and the caller.  One step is  *)
(* one bus transaction or one delay() of the call in progress; a call that *)
(* makes a single transaction is a single step.  Every transaction may be  *)
(* refused by the bus.  `log` and `now` are history: the transactions and  *)
(* delays of the call in progress (or of the last call), and its time.     *)
(***************************************************************************)
EXTENDS Integers, Sequences, FiniteSets, TLC

VARIABLES
    regs,      \* the sensor's registers: [RegAddrs -> 0..65535]
    address,   \* TMP11x_7Semi::address
    pc,        \* position of the call in progress, "idle" between calls
    op,        \* the call in progress or the last call: [name, a, b, ...]
    cfg,       \* the local uint16_t cfg / config of a setter
    out,       \* the caller's variable passed by reference
    ret,       \* what the last call returned: "none", TRUE or FALSE
    log,       \* bus transactions and delays of the call (history)
    now,       \* time units the call has spent in delay() (history)
    calls,     \* calls made so far
    ext,       \* writes made by another bus master so far
    lastSet,   \* the last field setter and the word it found (history)
    out0,      \* the caller's variable as the call found it (history)
    regs0      \* the sensor's registers as the call found them (history)

vars ==
    <<regs, address, pc, op, cfg, out, ret, log, now, calls, ext, lastSet,
      out0, regs0>>

(* ------------------------------ bounds -------------------------------- *)

MaxCalls == 2
ArgOver == 1
MaxRegArg == 16
MaxExternal == 1
SubLSB == 4
MaxTemp == 8
ProbeCalls == 3

(* --------------------------- register map ----------------------------- *)

REG_TEMP == 0
REG_CONFIG == 1
REG_T_HIGH == 2
REG_T_LOW == 3
REG_EEPROM_UL == 4
REG_EEPROM1 == 5
REG_EEPROM2 == 6
REG_TEMP_OFFSET == 7
REG_EEPROM3 == 8
REG_DEVICE_ID == 15

RegAddrs ==
    {REG_TEMP, REG_CONFIG, REG_T_HIGH, REG_T_LOW, REG_EEPROM_UL, REG_EEPROM1,
     REG_EEPROM2, REG_TEMP_OFFSET, REG_EEPROM3, REG_DEVICE_ID}

EESlots == {REG_EEPROM1, REG_EEPROM2, REG_EEPROM3}

(* The 7-bit address the sensor answers to, and the addresses a caller may
   pass to begin (the default 0x48 and the example's 0x49). *)
SensorAddress == 72
Addresses == {72, 73}

ID_TMP117 == 279     \* 0x0117
ID_TMP116 == 4374    \* 0x1116

(* Samples of the 16-bit words the configuration register, DEVICE_ID, the
   EEPROM slots and the caller's variable may hold at the start, and of the
   words a caller writes to a slot. *)
CfgSamples == {0, 65535, 544, 32768, 42405, 23130}
IdSamples == {ID_TMP117, ID_TMP116, 0, 278, 4375, 65535}
EEValues == {4660, 65535}
SlotSamples == {170}
OutSamples == {43605}

(* The enumerators with the largest value of each field's type. *)
ONE_SHOT == 3
CONV_16S == 7
AVG_64 == 3
THERM_MODE == 1
ALERT_ACTIVE_HIGH == 1

(* --------------------------- 16-bit words ----------------------------- *)

Pow2Table ==
    <<1, 2, 4, 8, 16, 32, 64, 128, 256, 512, 1024, 2048, 4096, 8192, 16384,
      32768, 65536>>
Pow2(n) == Pow2Table[n + 1]

RECURSIVE AndBits(_, _)
AndBits(a, b) ==
    IF a = 0 \/ b = 0 THEN 0
    ELSE (a % 2) * (b % 2) + 2 * AndBits(a \div 2, b \div 2)

RECURSIVE OrBits(_, _)
OrBits(a, b) ==
    IF a = 0 THEN b
    ELSE IF b = 0 THEN a
    ELSE (IF (a % 2) + (b % 2) > 0 THEN 1 ELSE 0) + 2 * OrBits(a \div 2, b \div 2)

\* a & b, a | b and ~a on the low 16 bits, a << n, a >> n
And16(a, b) == AndBits(a % 65536, b % 65536)
Or16(a, b) == OrBits(a % 65536, b % 65536)
Not16(a) == 65535 - (a % 65536)
Shl(a, n) == a * Pow2(n)
Shr(a, n) == a \div Pow2(n)

(* ------------------------------ the bus ------------------------------- *)

(* What the bus does to one transaction: `ack` is endTransmission() == 0,
   `n` the number of bytes requestFrom() returns.  No device acknowledges
   an address other than the sensor's. *)
BusOutcomes == {[ack |-> FALSE, n |-> 0]} \cup [ack : {TRUE}, n : 1..3]
WriteOutcomes == {b \in BusOutcomes : b.n = 2 \/ ~b.ack}

Answers(a, b) == b.ack => a = SensorAddress

(* One entry of `log`: a transaction to device `a` at call time t.  `ack`
   is the outcome of the address phase, `stop` whether it ends with a stop
   condition (endTransmission() of a write) or without one
   (endTransmission(false) of a read), `req` whether requestFrom() was
   called, `want` the bytes it asked for and `n` the bytes it got. *)
Event(k, a, reg, val, ok, b, t) ==
    [k |-> k, addr |-> a, reg |-> reg, val |-> val, ok |-> ok,
     ack |-> b.ack, stop |-> (k # "read"),
     req |-> (k = "read" /\ b.ack),
     want |-> IF k = "read" /\ b.ack THEN 2 ELSE 0,
     n |-> IF k = "read" /\ b.ack THEN b.n ELSE 0,
     t |-> t]

DelayEvent(d, t) ==
    [k |-> "delay", addr |-> 0, reg |-> 0, val |-> d, ok |-> TRUE,
     ack |-> FALSE, stop |-> FALSE, req |-> FALSE, want |-> 0, n |-> 0,
     t |-> t]

\* The bytes on the wire for a 16-bit word, most significant first.
HiByte(v) == Shr(v, 8) % 256
LoByte(v) == And16(v, 255) % 256

\* Mutation of readRegOk: more than two bytes are accepted.
readRegOk_atleast(b) == b.ack /\ b.n >= 2

(* readReg: the register address is sent without a stop, two bytes are
   requested, and the word is (first << 8) | second.  The sensor sends the
   high byte of the register first; the two i2c->read() calls are taken in
   the order they are written, left operand of | first. *)
readRegOk(b) == b.ack /\ b.n = 2
readRegValue(reg) == Or16(Shl(Shr(regs[reg], 8) % 256, 8), regs[reg] % 256)
readRegEvent(a, reg, b, t) ==
    Event("read", a, reg, IF readRegOk(b) THEN readRegValue(reg) ELSE 0,
          readRegOk(b), b, t)

(* writeReg: reg, value >> 8 and value & 0xFF are sent; the sensor stores
   first * 256 + second when it acknowledges. *)
writeRegOk(b) == b.ack
writeRegEvent(a, reg, value, b, t) ==
    Event("write", a, reg, value, writeRegOk(b), b, t)
writeRegRegs(reg, value, b) ==
    IF writeRegOk(b)
    THEN [regs EXCEPT ![reg] = HiByte(value) * 256 + LoByte(value)]
    ELSE regs

(* ------------------------------- calls -------------------------------- *)

NoSet == [st |-> "none", f |-> "none", v |-> 0, pre |-> 0]

Idle == pc = "idle" /\ calls < MaxCalls

\* The same for begin and getDeviceID, which may follow two other calls.
IdleProbe == pc = "idle" /\ calls < ProbeCalls

\* A call returns r, leaving `o` in the caller's variable.
Return(r, o) ==
    /\ pc' = "idle"
    /\ ret' = r
    /\ out' = o

(* The state after construction (the constructor stores the bus only;
   `address` is whatever the object's memory held), with the sensor holding
   c in its configuration register and id in DEVICE_ID. *)
Constructed(c, id, a) ==
    /\ \E e \in SlotSamples :
        regs = [r \in RegAddrs |->
                  CASE r = REG_CONFIG -> c
                    [] r = REG_DEVICE_ID -> id
                    [] r \in EESlots -> e
                    [] OTHER -> 0]
    /\ address = a
    /\ pc = "idle"
    /\ op = [name |-> "none", a |-> 0, b |-> 0, again |-> FALSE, after |-> <<>>,
             begun |-> -1, readyAt |-> -1]
    /\ cfg = 0
    /\ out \in OutSamples
    /\ out0 = out
    /\ regs0 = regs
    /\ ret = "none"
    /\ log = <<>>
    /\ now = 0
    /\ calls = 0
    /\ ext = 0
    /\ lastSet = NoSet

(* Entering a call, and what every step of a call leaves alone.  `again`
   is history: the call repeats, with the same arguments, the call before
   it, which returned false after a refused transaction; so is `after`:
   the temperature setter and its argument, when the call is the getter of
   the same register and the call before was that setter and returned
   true; `begun`: the address the last begin call was given, this call
   included; `readyAt`: the address of the last earlier begin call that
   returned true (each -1 when there is none). *)
Enter(name, a, b) ==
    /\ op' = [name |-> name, a |-> a, b |-> b,
              again |-> /\ calls > 0
                        /\ ret = FALSE
                        /\ \E i \in DOMAIN log : ~log[i].ok
                        /\ op.name = name /\ op.a = a /\ op.b = b,
              after |-> IF /\ calls > 0
                           /\ <<op.name, name>> \in
                                 {<<"setHighLimit", "getHighLimit">>,
                                  <<"setLowLimit", "getLowLimit">>,
                                  <<"setOffset", "getOffset">>}
                           /\ ret = TRUE
                        THEN <<op.name, op.a>>
                        ELSE <<>>,
              begun |-> IF name = "begin" THEN a ELSE op.begun,
              readyAt |-> IF calls > 0 /\ op.name = "begin" /\ ret = TRUE
                          THEN op.a
                          ELSE op.readyAt]
    /\ out0' = out
    /\ regs0' = regs
    /\ now' = 0
    /\ calls' = calls + 1

Within == UNCHANGED <<op, out0, regs0, calls, address, ext>>

(* begin: stores the address, sets up Wire (no register traffic), reads
   DEVICE_ID once through getDeviceID and compares it. *)
\* Mutation of begin's comparison: only the TMP117 identity is accepted.
beginResult_tmp117(ok, deviceID) ==
    IF ~ok THEN FALSE
    ELSE IF deviceID = ID_TMP117 THEN TRUE
    ELSE FALSE

beginResult(ok, deviceID) ==
    IF ~ok THEN FALSE
    ELSE IF deviceID = ID_TMP117 \/ deviceID = ID_TMP116 THEN TRUE
    ELSE FALSE

\* Mutation of begin: a failed probe is tried a second time.
beginLog_retry(a, b) ==
    IF readRegOk(b)
    THEN <<readRegEvent(a, REG_DEVICE_ID, b, 0)>>
    ELSE <<readRegEvent(a, REG_DEVICE_ID, b, 0), readRegEvent(a, REG_DEVICE_ID, b, 0)>>

\* The transactions of begin: getDeviceID(deviceID), once.
beginLog(a, b) == <<readRegEvent(a, REG_DEVICE_ID, b, 0)>>

\* Mutation of begin: the previous address comes back when the probe fails.
begin_restore ==
    /\ IdleProbe
    /\ \E a \in Addresses, b \in BusOutcomes :
        /\ address' = IF beginResult(readRegOk(b), readRegValue(REG_DEVICE_ID))
                      THEN a
                      ELSE address
        /\ Answers(a, b)
        /\ Enter("begin", a, 0)
        /\ log' = beginLog(a, b)
        /\ Return(beginResult(readRegOk(b), readRegValue(REG_DEVICE_ID)), out)
    /\ UNCHANGED <<regs, cfg, ext, lastSet>>

begin ==
    /\ IdleProbe
    /\ \E a \in Addresses, b \in BusOutcomes :
        /\ address' = a
        /\ Answers(a, b)
        /\ Enter("begin", a, 0)
        /\ log' = beginLog(a, b)
        /\ Return(beginResult(readRegOk(b), readRegValue(REG_DEVICE_ID)), out)
    /\ UNCHANGED <<regs, cfg, ext, lastSet>>

\* Mutation of getDeviceID: the identity a call has read is handed out
\* again by the next call, without a read.
getDeviceID_cached ==
    /\ Idle
    /\ \E b \in BusOutcomes :
        /\ Answers(address, b)
        /\ Enter("getDeviceID", 0, 0)
        /\ IF calls > 0 /\ op.name = "getDeviceID" /\ ret = TRUE
           THEN /\ log' = <<>>
                /\ Return(TRUE, out)
           ELSE /\ log' = <<readRegEvent(address, REG_DEVICE_ID, b, 0)>>
                /\ IF readRegOk(b)
                   THEN Return(TRUE, readRegValue(REG_DEVICE_ID))
                   ELSE Return(FALSE, out)
    /\ UNCHANGED <<regs, address, cfg, ext, lastSet>>

\* getDeviceID: readReg(REG_DEVICE_ID, deviceID).
getDeviceID ==
    /\ IdleProbe
    /\ \E b \in BusOutcomes :
        /\ Answers(address, b)
        /\ Enter("getDeviceID", 0, 0)
        /\ log' = <<readRegEvent(address, REG_DEVICE_ID, b, 0)>>
        /\ IF readRegOk(b)
           THEN Return(TRUE, readRegValue(REG_DEVICE_ID))
           ELSE Return(FALSE, out)
    /\ UNCHANGED <<regs, address, cfg, ext, lastSet>>

(* The device on the bus is replaced between two calls by one with another
   identity word. *)
IdentityChange ==
    /\ pc = "idle"
    /\ ext < MaxExternal
    /\ \E id \in IdSamples :
        /\ id # regs[REG_DEVICE_ID]
        /\ regs' = [regs EXCEPT ![REG_DEVICE_ID] = id]
    /\ ext' = ext + 1
    /\ UNCHANGED <<address, pc, op, cfg, out, ret, log, now, calls, lastSet,
                   out0, regs0>>

(* ------------------------ configuration fields ------------------------ *)

setConversionRate(c, conversionRate) ==
    Or16(And16(c, Not16(Shl(7, 7))), Shl(And16(conversionRate, 7), 7)) % 65536

\* Mutation of getConversionRate: a two-bit mask.
getConversionRate_narrow(c) == And16(Shr(c, 7), 3) % 256

getConversionRate(c) == And16(Shr(c, 7), 7) % 256

\* Mutation of setAveraging: the field is cleared one bit too far left.
setAveraging_shifted(c, avg) ==
    Or16(And16(c, Not16(Shl(3, 6))), Shl(And16(avg, 3), 5)) % 65536

setAveraging(c, avg) ==
    Or16(And16(c, Not16(Shl(3, 5))), Shl(And16(avg, 3), 5)) % 65536

getAveraging(c) == And16(Shr(c, 5), 3) % 256

setMode(c, mode) ==
    Or16(And16(c, Not16(Shl(3, 10))), Shl(And16(mode % 65536, 3), 10)) % 65536

\* Mutation of getMode: a three-bit mask.
getMode_wide(c) == And16(Shr(c, 10), 7) % 256

getMode(c) == And16(Shr(c, 10), 3) % 256

setAlertPolarity(c, active_high) ==
    IF active_high # 0 THEN Or16(c, Shl(1, 3)) ELSE And16(c, Not16(Shl(1, 3)))

getAlertPolarity(c) == And16(Shr(c, 3), 1) % 256

\* Mutation of setThermAlertMode: any non-zero argument sets the bit.
setThermAlertMode_truthy(c, mode) ==
    IF mode # 0 THEN Or16(c, Shl(1, 4)) ELSE And16(c, Not16(Shl(1, 4)))

setThermAlertMode(c, mode) ==
    Or16(And16(c, Not16(Shl(1, 4))), Shl(And16(mode, 1), 4)) % 65536

getThermAlertMode(c) == And16(Shr(c, 4), 1) % 256

Setters ==
    {"setMode", "setConversionRate", "setAveraging", "setThermAlertMode",
     "setAlertPolarity"}

Getters ==
    {"getMode", "getConversionRate", "getAveraging", "getThermAlertMode",
     "getAlertPolarity"}

\* The arguments a caller passes: the field's enumerators and a few beyond.
FieldMax(name) ==
    CASE name = "setMode" -> ONE_SHOT
      [] name = "setConversionRate" -> CONV_16S
      [] name = "setAveraging" -> AVG_64
      [] name = "setThermAlertMode" -> THERM_MODE
      [] name = "setAlertPolarity" -> ALERT_ACTIVE_HIGH

Args(name) == 0..(FieldMax(name) + ArgOver)

\* The word a setter writes back, from the word it read and its argument.
\* Mutation of SetterWord: the field is replaced in the register as it is at
\* the time of the write, not in the word read earlier.
SetterWord_fresh(name, c, v) ==
    CASE name = "setMode" -> setMode(regs[REG_CONFIG], v)
      [] name = "setConversionRate" -> setConversionRate(regs[REG_CONFIG], v)
      [] name = "setAveraging" -> setAveraging(regs[REG_CONFIG], v)
      [] name = "setThermAlertMode" -> setThermAlertMode(regs[REG_CONFIG], v)
      [] name = "setAlertPolarity" -> setAlertPolarity(regs[REG_CONFIG], v)

SetterWord(name, c, v) ==
    CASE name = "setMode" -> setMode(c, v)
      [] name = "setConversionRate" -> setConversionRate(c, v)
      [] name = "setAveraging" -> setAveraging(c, v)
      [] name = "setThermAlertMode" -> setThermAlertMode(c, v)
      [] name = "setAlertPolarity" -> setAlertPolarity(c, v)

\* The value a getter stores in the caller's variable, from the word read.
GetterValue(name, c) ==
    CASE name = "getMode" -> getMode(c)
      [] name = "getConversionRate" -> getConversionRate(c)
      [] name = "getAveraging" -> getAveraging(c)
      [] name = "getThermAlertMode" -> getThermAlertMode(c)
      [] name = "getAlertPolarity" -> getAlertPolarity(c)

\* Mutation of SetterRead: a failed read is issued a second time.
SetterRead_retry ==
    /\ Idle
    /\ \E name \in Setters, b \in BusOutcomes :
      \E v \in Args(name) :
        /\ Answers(address, b)
        /\ Enter(name, v, 0)
        /\ IF readRegOk(b)
           THEN /\ cfg' = readRegValue(REG_CONFIG)
                /\ log' = <<readRegEvent(address, REG_CONFIG, b, 0)>>
                /\ pc' = "setter_write"
                /\ ret' = "running"
                /\ out' = out
                /\ lastSet' = [st |-> "reading", f |-> name, v |-> v,
                               pre |-> regs[REG_CONFIG]]
           ELSE /\ cfg' = cfg
                /\ log' = <<readRegEvent(address, REG_CONFIG, b, 0),
                            readRegEvent(address, REG_CONFIG, b, 0)>>
                /\ Return(FALSE, out)
                /\ lastSet' = lastSet
    /\ UNCHANGED <<regs, address, ext>>

(* A setter up to its readConfig(cfg): a failed read returns false. *)
SetterRead ==
    /\ Idle
    /\ \E name \in Setters, b \in BusOutcomes :
      \E v \in Args(name) :
        /\ Answers(address, b)
        /\ Enter(name, v, 0)
        /\ log' = <<readRegEvent(address, REG_CONFIG, b, 0)>>
        /\ IF readRegOk(b)
           THEN /\ cfg' = readRegValue(REG_CONFIG)
                /\ pc' = "setter_write"
                /\ ret' = "running"
                /\ out' = out
                /\ lastSet' = [st |-> "reading", f |-> name, v |-> v,
                               pre |-> regs[REG_CONFIG]]
           ELSE /\ cfg' = cfg
                /\ Return(FALSE, out)
                /\ lastSet' = lastSet
    /\ UNCHANGED <<regs, address, ext>>

(* The rest of a setter: the field is replaced in cfg and writeConfig(cfg)
   is the return value. *)
SetterWrite ==
    /\ pc = "setter_write"
    /\ \E b \in WriteOutcomes :
        /\ Answers(address, b)
        /\ cfg' = SetterWord(op.name, cfg, op.a)
        /\ regs' = writeRegRegs(REG_CONFIG, cfg', b)
        /\ log' = Append(log, writeRegEvent(address, REG_CONFIG, cfg', b, now))
        /\ Return(writeRegOk(b), out)
        /\ lastSet' = IF writeRegOk(b) /\ lastSet.st = "reading"
                      THEN [lastSet EXCEPT !.st = "written"]
                      ELSE IF writeRegOk(b) /\ lastSet.st = "raced"
                      THEN [lastSet EXCEPT !.st = "lost"]
                      ELSE NoSet
    /\ now' = now
    /\ Within

(* A getter: readConfig(cfg), then the field goes to the caller. *)
Getter ==
    /\ Idle
    /\ \E name \in Getters, b \in BusOutcomes :
        /\ Answers(address, b)
        /\ Enter(name, 0, 0)
        /\ log' = <<readRegEvent(address, REG_CONFIG, b, 0)>>
        /\ IF readRegOk(b)
           THEN /\ cfg' = readRegValue(REG_CONFIG)
                /\ Return(TRUE, GetterValue(name, cfg'))
           ELSE /\ cfg' = cfg
                /\ Return(FALSE, out)
    /\ UNCHANGED <<regs, address, ext, lastSet>>

\* readConfig: readReg(REG_CONFIG, config).
readConfig ==
    /\ Idle
    /\ \E b \in BusOutcomes :
        /\ Answers(address, b)
        /\ Enter("readConfig", 0, 0)
        /\ log' = <<readRegEvent(address, REG_CONFIG, b, 0)>>
        /\ IF readRegOk(b)
           THEN Return(TRUE, readRegValue(REG_CONFIG))
           ELSE Return(FALSE, out)
    /\ UNCHANGED <<regs, address, cfg, ext, lastSet>>

(* reset: writeConfig(0x8000), one write of the configuration register.
   The sensor is a register file here: it keeps the word. *)
RESET_WORD == 32768     \* 0x8000

\* Mutation of reset: the configuration register is read before the write.
reset_read_first ==
    /\ Idle
    /\ \E b \in WriteOutcomes :
        /\ Answers(address, b)
        /\ Enter("reset", 0, 0)
        /\ log' = <<readRegEvent(address, REG_CONFIG, b, 0),
                    writeRegEvent(address, REG_CONFIG, RESET_WORD, b, 0)>>
        /\ regs' = writeRegRegs(REG_CONFIG, RESET_WORD, b)
        /\ Return(writeRegOk(b), out)
    /\ lastSet' = NoSet
    /\ UNCHANGED <<address, cfg, ext>>

reset ==
    /\ Idle
    /\ \E b \in WriteOutcomes :
        /\ Answers(address, b)
        /\ Enter("reset", 0, 0)
        /\ log' = <<writeRegEvent(address, REG_CONFIG, RESET_WORD, b, 0)>>
        /\ regs' = writeRegRegs(REG_CONFIG, RESET_WORD, b)
        /\ Return(writeRegOk(b), out)
    /\ lastSet' = NoSet
    /\ UNCHANGED <<address, cfg, ext>>

(* Another master on the bus writes the configuration register while a
   call of this driver is between two of its transactions: an arbitrary
   word, or, between a setter's read and its write, the word a second
   driver object's setter of another field makes of the same register
   contents.  `lastSet` keeps the word written under a setter (history). *)
ExternalWords == {0, 65535}

RivalWords ==
    IF pc = "setter_write"
    THEN {SetterWord(n, cfg, FieldMax(n)) : n \in Setters \ {op.name}}
    ELSE {}

ExternalWrite ==
    /\ ext < MaxExternal
    /\ pc # "idle"
    /\ \E w \in ExternalWords \cup RivalWords :
        /\ w # regs[REG_CONFIG]
        /\ regs' = [regs EXCEPT ![REG_CONFIG] = w]
        /\ lastSet' = IF pc = "setter_write" /\ lastSet.st \in {"reading", "raced"}
                      THEN [lastSet EXCEPT !.st = "raced", !.pre = w]
                      ELSE NoSet
    /\ ext' = ext + 1
    /\ UNCHANGED <<address, pc, op, cfg, out, ret, log, now, calls, out0, regs0>>

(* --------------------------- temperatures ----------------------------- *)

(* A float Celsius value is the integer number of 1/SubLSB parts of one
   LSB (0.0078125 degrees) it holds; every such value within a few times
   the int16 range is a float exactly, and so are its products and
   quotients by 0.0078125, a power of two. *)
\* Mutation of ToInt16: the word is not sign-extended.
ToInt16_unsigned(w) == w % 65536

ToInt16(w) == IF w % 65536 >= 32768 THEN (w % 65536) - 65536 ELSE w % 65536
ToUint16(k) == k % 65536

\* Mutation of rawToCelsius: the code is taken as an unsigned word.
rawToCelsius_unsigned(raw) == ToUint16(raw) * SubLSB

\* raw * 0.0078125f
rawToCelsius(raw) == raw * SubLSB

\* Mutation of celsiusToRaw: the quotient is rounded down.
celsiusToRaw_floor(temp) == temp \div SubLSB

\* Mutation of celsiusToRaw: the quotient is rounded to the nearest integer.
celsiusToRaw_nearest(temp) ==
    IF temp >= 0 THEN (2 * temp + SubLSB) \div (2 * SubLSB)
    ELSE -((2 * (-temp) + SubLSB) \div (2 * SubLSB))

\* (int16_t)(temp / 0.0078125f): the conversion discards the fraction.
celsiusToRaw(temp) ==
    IF temp >= 0 THEN temp \div SubLSB ELSE -((-temp) \div SubLSB)

(* The conversion is undefined when the integer part is no int16: the
   builds in use either keep its low 16 bits or saturate. *)
InInt16(k) == k >= -32768 /\ k <= 32767
celsiusToRawOutcomes(temp) ==
    IF InInt16(celsiusToRaw(temp))
    THEN {celsiusToRaw(temp)}
    ELSE {ToInt16(celsiusToRaw(temp)),
          IF temp >= 0 THEN 32767 ELSE -32768}

\* The codes the temperature registers hold at the start.
CodeSamples == {0, 1, -1, 128, -128, 32767, -32768}

\* The Celsius values a caller passes: around zero, at the two ends of the
\* int16 range, one beyond each end, and the value of every sample code.
TempArgs ==
    (-MaxTemp..MaxTemp)
        \cup {32767 * SubLSB + (SubLSB - 1), -32768 * SubLSB - (SubLSB - 1),
              32768 * SubLSB, -32769 * SubLSB}
        \cup {rawToCelsius(k) : k \in CodeSamples}

TempSetters == {"setHighLimit", "setLowLimit", "setOffset"}
TempGetters == {"getHighLimit", "getLowLimit", "getOffset", "readTemperatureC"}

TempReg(name) ==
    CASE name \in {"setHighLimit", "getHighLimit"} -> REG_T_HIGH
      [] name \in {"setLowLimit", "getLowLimit"} -> REG_T_LOW
      [] name \in {"setOffset", "getOffset"} -> REG_TEMP_OFFSET
      [] name \in {"readTemperatureC", "readRawTemperature"} -> REG_TEMP

\* Mutation of the three setters: the code is written after a read.
TempSetter_read_first ==
    /\ Idle
    /\ \E name \in TempSetters, t \in TempArgs, b \in WriteOutcomes :
        /\ Answers(address, b)
        /\ Enter(name, t, 0)
        /\ \E code \in celsiusToRawOutcomes(t) :
            /\ log' = <<readRegEvent(address, TempReg(name), b, 0),
                        writeRegEvent(address, TempReg(name), ToUint16(code), b, 0)>>
            /\ regs' = writeRegRegs(TempReg(name), ToUint16(code), b)
        /\ Return(writeRegOk(b), out)
    /\ UNCHANGED <<address, cfg, ext, lastSet>>

(* setHighLimit, setLowLimit, setOffset: writeReg(reg, celsiusToRaw(t)),
   the int16 code converted to the uint16_t parameter. *)
TempSetter ==
    /\ Idle
    /\ \E name \in TempSetters, t \in TempArgs, b \in WriteOutcomes :
        /\ Answers(address, b)
        /\ Enter(name, t, 0)
        /\ \E code \in celsiusToRawOutcomes(t) :
            /\ log' = <<writeRegEvent(address, TempReg(name), ToUint16(code), b, 0)>>
            /\ regs' = writeRegRegs(TempReg(name), ToUint16(code), b)
        /\ Return(writeRegOk(b), out)
    /\ UNCHANGED <<address, cfg, ext, lastSet>>

(* getHighLimit, getLowLimit, getOffset, readTemperatureC: readReg(reg, raw)
   and rawToCelsius((int16_t)raw) to the caller. *)
TempGetter ==
    /\ Idle
    /\ \E name \in TempGetters, b \in BusOutcomes :
        /\ Answers(address, b)
        /\ Enter(name, 0, 0)
        /\ log' = <<readRegEvent(address, TempReg(name), b, 0)>>
        /\ IF readRegOk(b)
           THEN Return(TRUE, rawToCelsius(ToInt16(readRegValue(TempReg(name)))))
           ELSE Return(FALSE, out)
    /\ UNCHANGED <<regs, address, cfg, ext, lastSet>>

\* Mutation of readRawTemperature: a failed read hands the caller 0.
readRawTemperature_clear ==
    /\ Idle
    /\ \E b \in BusOutcomes :
        /\ Answers(address, b)
        /\ Enter("readRawTemperature", 0, 0)
        /\ log' = <<readRegEvent(address, REG_TEMP, b, 0)>>
        /\ IF readRegOk(b)
           THEN Return(TRUE, ToInt16(readRegValue(REG_TEMP)))
           ELSE Return(FALSE, 0)
    /\ UNCHANGED <<regs, address, cfg, ext, lastSet>>

\* readRawTemperature: readReg(REG_TEMP, raw) and (int16_t)raw to the caller.
readRawTemperature ==
    /\ Idle
    /\ \E b \in BusOutcomes :
        /\ Answers(address, b)
        /\ Enter("readRawTemperature", 0, 0)
        /\ log' = <<readRegEvent(address, REG_TEMP, b, 0)>>
        /\ IF readRegOk(b)
           THEN Return(TRUE, ToInt16(readRegValue(REG_TEMP)))
           ELSE Return(FALSE, out)
    /\ UNCHANGED <<regs, address, cfg, ext, lastSet>>

(* (tempC * 1.8f) + 32.0f: the float arithmetic, whose rounding depends on
   the build (a product rounded before the sum, or a fused multiply-add),
   is not evaluated; the result is kept as the term it is of the Celsius
   value. *)
celsiusToFahrenheit(tempC) == [times |-> "1.8f", plus |-> "32.0f", of |-> tempC]

(* readTemperatureF: readTemperatureC(tempC), itself readRawTemperature(raw)
   and rawToCelsius(raw), then the conversion to Fahrenheit. *)
readTemperatureF ==
    /\ Idle
    /\ \E b \in BusOutcomes :
        /\ Answers(address, b)
        /\ Enter("readTemperatureF", 0, 0)
        /\ log' = <<readRegEvent(address, REG_TEMP, b, 0)>>
        /\ IF readRegOk(b)
           THEN Return(TRUE, celsiusToFahrenheit(
                                rawToCelsius(ToInt16(readRegValue(REG_TEMP)))))
           ELSE Return(FALSE, out)
    /\ UNCHANGED <<regs, address, cfg, ext, lastSet>>

(* ------------------------------- EEPROM ------------------------------- *)

UNLOCK_WORD == 32768     \* 0x8000
LOCK_WORD == 0
SETTLE_DELAY == 2
PROGRAM_DELAY == 10
LOCK_DELAY == 2

\* Mutation of the register test: everything from EEPROM1 to EEPROM3 passes.
validEEPROM_range(reg) == reg >= REG_EEPROM1 /\ reg <= REG_EEPROM3

\* The test both EEPROM calls start with.
validEEPROM(reg) == ~(reg # REG_EEPROM1 /\ reg # REG_EEPROM2 /\ reg # REG_EEPROM3)

\* Mutation of readEEPROM: a refused read clears the stored address.
readEEPROM_invalidate ==
    /\ Idle
    /\ \E reg \in 0..MaxRegArg :
        /\ Enter("readEEPROM", reg, 0)
        /\ IF ~validEEPROM(reg)
           THEN /\ log' = <<>>
                /\ Return(FALSE, out)
           ELSE \E b \in BusOutcomes :
                /\ Answers(address, b)
                /\ log' = <<readRegEvent(address, reg, b, 0)>>
                /\ IF readRegOk(b)
                   THEN Return(TRUE, readRegValue(reg))
                   ELSE Return(FALSE, out)
    /\ address' = IF ret' = FALSE /\ log' # <<>> THEN 0 ELSE address
    /\ UNCHANGED <<regs, cfg, ext, lastSet>>

(* readEEPROM: a register other than the three slots is refused before any
   bus traffic; otherwise readReg(reg, value). *)
readEEPROM ==
    /\ Idle
    /\ \E reg \in 0..MaxRegArg :
        /\ Enter("readEEPROM", reg, 0)
        /\ IF ~validEEPROM(reg)
           THEN /\ log' = <<>>
                /\ Return(FALSE, out)
           ELSE \E b \in BusOutcomes :
                /\ Answers(address, b)
                /\ log' = <<readRegEvent(address, reg, b, 0)>>
                /\ IF readRegOk(b)
                   THEN Return(TRUE, readRegValue(reg))
                   ELSE Return(FALSE, out)
    /\ UNCHANGED <<regs, address, cfg, ext, lastSet>>

(* writeEEPROM up to the write inside unlockEEPROM(): the register test,
   then 0x8000 to EEPROM_UL; a refused write returns false. *)
writeEEPROM_unlock ==
    /\ Idle
    /\ \E reg \in 0..MaxRegArg, value \in EEValues :
        /\ Enter("writeEEPROM", reg, value)
        /\ IF ~validEEPROM(reg)
           THEN /\ log' = <<>>
                /\ regs' = regs
                /\ Return(FALSE, out)
           ELSE \E b \in WriteOutcomes :
                /\ Answers(address, b)
                /\ log' = <<writeRegEvent(address, REG_EEPROM_UL, UNLOCK_WORD, b, 0)>>
                /\ regs' = writeRegRegs(REG_EEPROM_UL, UNLOCK_WORD, b)
                /\ IF writeRegOk(b)
                   THEN pc' = "unlock_delay" /\ ret' = "running" /\ out' = out
                   ELSE Return(FALSE, out)
    /\ UNCHANGED <<address, cfg, ext, lastSet>>

\* A delay(d) of the call in progress, which then goes on at `next`.
Delay(d, next) ==
    /\ now' = now + d
    /\ log' = Append(log, DelayEvent(d, now))
    /\ pc' = next
    /\ UNCHANGED <<regs, cfg, out, ret, lastSet>>
    /\ Within

\* Mutation of unlockEEPROM(): no settle delay.
unlockEEPROM_delay_none ==
    /\ pc = "unlock_delay"
    /\ pc' = "write_slot"
    /\ UNCHANGED <<regs, cfg, out, ret, lastSet, now, log>>
    /\ Within

\* unlockEEPROM(): delay(2) after the accepted write.
unlockEEPROM_delay ==
    /\ pc = "unlock_delay"
    /\ Delay(SETTLE_DELAY, "write_slot")

\* Mutation of writeEEPROM: a refused data write is followed by a lock write.
writeEEPROM_write_relock ==
    /\ pc = "write_slot"
    /\ \E b \in WriteOutcomes :
        /\ Answers(address, b)
        /\ IF writeRegOk(b)
           THEN /\ log' = Append(log, writeRegEvent(address, op.a, op.b, b, now))
                /\ regs' = writeRegRegs(op.a, op.b, b)
                /\ pc' = "program_delay"
                /\ UNCHANGED <<ret, out>>
           ELSE /\ log' = log \o <<writeRegEvent(address, op.a, op.b, b, now),
                                   writeRegEvent(address, REG_EEPROM_UL, LOCK_WORD,
                                                 [ack |-> TRUE, n |-> 2], now)>>
                /\ regs' = [regs EXCEPT ![REG_EEPROM_UL] = LOCK_WORD]
                /\ Return(FALSE, out)
    /\ UNCHANGED <<cfg, now, lastSet>>
    /\ Within

\* writeEEPROM: writeReg(reg, value); a refused write returns false.
writeEEPROM_write ==
    /\ pc = "write_slot"
    /\ \E b \in WriteOutcomes :
        /\ Answers(address, b)
        /\ log' = Append(log, writeRegEvent(address, op.a, op.b, b, now))
        /\ regs' = writeRegRegs(op.a, op.b, b)
        /\ IF writeRegOk(b)
           THEN pc' = "program_delay" /\ UNCHANGED <<ret, out>>
           ELSE Return(FALSE, out)
    /\ UNCHANGED <<cfg, now, lastSet>>
    /\ Within

\* Mutation of writeEEPROM: the lock follows the data write at once.
writeEEPROM_delay_none ==
    /\ pc = "program_delay"
    /\ pc' = "lock"
    /\ UNCHANGED <<regs, cfg, out, ret, lastSet, now, log>>
    /\ Within

\* writeEEPROM: delay(10), the EEPROM's programming time.
writeEEPROM_delay ==
    /\ pc = "program_delay"
    /\ Delay(PROGRAM_DELAY, "lock")

\* Mutation of lockEEPROM(): the unlock word is written again.
lockEEPROM_write_unlock ==
    /\ pc = "lock"
    /\ \E b \in WriteOutcomes :
        /\ Answers(address, b)
        /\ log' = Append(log, writeRegEvent(address, REG_EEPROM_UL, UNLOCK_WORD, b, now))
        /\ regs' = writeRegRegs(REG_EEPROM_UL, UNLOCK_WORD, b)
        /\ IF writeRegOk(b)
           THEN pc' = "lock_delay" /\ UNCHANGED <<ret, out>>
           ELSE Return(TRUE, out)
    /\ UNCHANGED <<cfg, now, lastSet>>
    /\ Within

(* lockEEPROM(): 0x0000 to EEPROM_UL.  writeEEPROM does not look at what
   lockEEPROM() returns: after a refused write it returns true at once. *)
lockEEPROM_write ==
    /\ pc = "lock"
    /\ \E b \in WriteOutcomes :
        /\ Answers(address, b)
        /\ log' = Append(log, writeRegEvent(address, REG_EEPROM_UL, LOCK_WORD, b, now))
        /\ regs' = writeRegRegs(REG_EEPROM_UL, LOCK_WORD, b)
        /\ IF writeRegOk(b)
           THEN pc' = "lock_delay" /\ UNCHANGED <<ret, out>>
           ELSE Return(TRUE, out)
    /\ UNCHANGED <<cfg, now, lastSet>>
    /\ Within

\* lockEEPROM(): delay(2) after the accepted write; writeEEPROM returns true.
lockEEPROM_delay ==
    /\ pc = "lock_delay"
    /\ now' = now + LOCK_DELAY
    /\ log' = Append(log, DelayEvent(LOCK_DELAY, now))
    /\ Return(TRUE, out)
    /\ UNCHANGED <<regs, cfg, lastSet>>
    /\ Within

(* ---------------------------- specifications -------------------------- *)

\* The configuration register's accessors, from every sample word.
InitConfig ==
    \E c \in CfgSamples : Constructed(c, ID_TMP117, SensorAddress)

NextConfig ==
    \/ SetterRead
    \/ SetterWrite
    \/ Getter
    \/ reset

SpecConfig == InitConfig /\ [][NextConfig]_vars

\* The setters with another master writing the configuration register.
RaceSamples == {42405}

InitRace ==
    \E c \in RaceSamples : Constructed(c, ID_TMP117, SensorAddress)

NextRace ==
    \/ SetterRead
    \/ SetterWrite
    \/ ExternalWrite

SpecRace == InitRace /\ [][NextRace]_vars

\* Initialization, for every sample identity and stored address.
InitProbe ==
    \E id \in IdSamples, a \in Addresses : Constructed(544, id, a)

NextProbe ==
    \/ begin
    \/ getDeviceID
    \/ IdentityChange

SpecProbe == InitProbe /\ [][NextProbe]_vars

\* The EEPROM slots.
InitEEPROM == Constructed(544, ID_TMP117, SensorAddress)

NextEEPROM ==
    \/ readEEPROM
    \/ writeEEPROM_unlock
    \/ unlockEEPROM_delay
    \/ writeEEPROM_write
    \/ writeEEPROM_delay
    \/ lockEEPROM_write
    \/ lockEEPROM_delay

SpecEEPROM == InitEEPROM /\ [][NextEEPROM]_vars

\* The temperature registers, holding every sample code at the start.
InitTemp ==
    /\ \E k \in CodeSamples :
        regs = [r \in RegAddrs |->
                  CASE r \in {REG_TEMP, REG_T_HIGH, REG_T_LOW, REG_TEMP_OFFSET}
                         -> ToUint16(k)
                    [] r = REG_CONFIG -> 544
                    [] r = REG_DEVICE_ID -> ID_TMP117
                    [] OTHER -> 0]
    /\ address = SensorAddress
    /\ pc = "idle"
    /\ op = [name |-> "none", a |-> 0, b |-> 0, again |-> FALSE, after |-> <<>>,
             begun |-> -1, readyAt |-> -1]
    /\ cfg = 0
    /\ out \in OutSamples
    /\ out0 = out
    /\ regs0 = regs
    /\ ret = "none"
    /\ log = <<>>
    /\ now = 0
    /\ calls = 0
    /\ ext = 0
    /\ lastSet = NoSet

NextTemp ==
    \/ TempSetter
    \/ TempGetter
    \/ readRawTemperature

SpecTemp == InitTemp /\ [][NextTemp]_vars

\* Every call that hands a value to the caller, on every sample state.
InitReads == InitConfig \/ InitTemp

NextReads ==
    \/ Getter
    \/ readConfig
    \/ TempGetter
    \/ readRawTemperature
    \/ readTemperatureF
    \/ readEEPROM
    \/ getDeviceID

SpecReads == InitReads /\ [][NextReads]_vars

\* The whole driver.
Init == InitConfig \/ InitProbe \/ InitTemp

Next ==
    \/ NextConfig
    \/ NextRace
    \/ NextProbe
    \/ NextEEPROM
    \/ NextTemp
    \/ NextReads

Spec == Init /\ [][Next]_vars

(* ------------------------------- claims ------------------------------- *)

\* The call `names` is over.
Over(names) == pc = "idle" /\ op.name \in names

AllOk(l) == \A i \in DOMAIN l : l[i].ok

IsRead(e, reg) == e.k = "read" /\ e.reg = reg
IsWrite(e, reg) == e.k = "write" /\ e.reg = reg

\* The bits of the configuration word each field occupies.
FieldBits(setter) ==
    CASE setter = "setMode" -> {10, 11}
      [] setter = "setConversionRate" -> {7, 8, 9}
      [] setter = "setAveraging" -> {5, 6}
      [] setter = "setThermAlertMode" -> {4}
      [] setter = "setAlertPolarity" -> {3}

BitOf(w, i) == (w \div Pow2(i)) % 2

(* C1: a setter call whose transactions all succeed makes exactly one read
   of register 0x01 and then exactly one write of register 0x01, and the
   word written equals the word read on every bit outside the setter's
   field. *)
C1_ReadModifyWrite ==
    (Over(Setters) /\ AllOk(log)) =>
        /\ Len(log) = 2
        /\ IsRead(log[1], 1)
        /\ IsWrite(log[2], 1)
        /\ \A i \in (0..15) \ FieldBits(op.name) :
              BitOf(log[2].val, i) = BitOf(log[1].val, i)

C1_Witness ==
    /\ Over({"setAveraging"})
    /\ ret = TRUE
    /\ Len(log) = 2
    /\ log[1].val = 42405
    /\ log[2].val # log[1].val

\* The getter that reads the field a setter writes.
GetterOf(setter) ==
    CASE setter = "setMode" -> "getMode"
      [] setter = "setConversionRate" -> "getConversionRate"
      [] setter = "setAveraging" -> "getAveraging"
      [] setter = "setThermAlertMode" -> "getThermAlertMode"
      [] setter = "setAlertPolarity" -> "getAlertPolarity"

\* The largest value of each field's domain.
DomainMax(setter) ==
    CASE setter = "setMode" -> 3
      [] setter = "setConversionRate" -> 7
      [] setter = "setAveraging" -> 3
      [] setter = "setThermAlertMode" -> 1
      [] setter = "setAlertPolarity" -> 1

(* C2: after a successful setter call with a value v of the field's domain
   and no other write of register 0x01 since, the matching getter returns
   v and each other getter returns what it returned for the word the setter
   found. *)
C2_SetGetRoundTrip ==
    (/\ Over(Getters)
     /\ ret = TRUE
     /\ lastSet.st = "written"
     /\ lastSet.v <= DomainMax(lastSet.f)) =>
        out = IF op.name = GetterOf(lastSet.f)
              THEN lastSet.v
              ELSE GetterValue(op.name, lastSet.pre)

C2_Witness ==
    /\ Over({"getConversionRate"})
    /\ ret = TRUE
    /\ lastSet.st = "written"
    /\ lastSet.f = "setConversionRate"
    /\ lastSet.v = 5
    /\ out = 5
    /\ lastSet.pre = 42405
    /\ GetterValue("getConversionRate", lastSet.pre) = 3

(* C3: begin returns true exactly when the read of DEVICE_ID succeeds and
   the sensor's identity is 0x0117 or 0x1116. *)
C3_BeginResult ==
    Over({"begin"}) =>
        /\ ret \in BOOLEAN
        /\ ret = TRUE <=> (log[1].ok /\ log[1].val \in {279, 4374})
        /\ log[1].ok => log[1].val = regs0[15]

C3_Witness ==
    /\ Over({"begin"})
    /\ ret = TRUE
    /\ regs[REG_DEVICE_ID] = 4374

(* C4: a begin call makes exactly one transaction, a read of register 0x0F,
   whatever its outcome. *)
C4_SingleProbe ==
    Over({"begin"}) =>
        /\ Len(log) = 1
        /\ IsRead(log[1], 15)

C4_Witness ==
    /\ Over({"begin"})
    /\ ret = FALSE
    /\ ~log[1].ok
    /\ regs[REG_DEVICE_ID] = 279

(* C5: readEEPROM and writeEEPROM given a register other than 0x05, 0x06 and
   0x08 return failure without a bus transaction or a delay; no register of
   the sensor changes and the caller's variable is as it was. *)
C5_InvalidSlotRejected ==
    (Over({"readEEPROM", "writeEEPROM"}) /\ op.a \notin {5, 6, 8}) =>
        /\ ret = FALSE
        /\ log = <<>>
        /\ now = 0
        /\ regs = regs0
        /\ out = out0

C5_Witness ==
    /\ Over({"writeEEPROM"})
    /\ op.a = 7
    /\ ret = FALSE
    /\ calls = 2
    /\ regs[REG_EEPROM_UL] = 32768

\* A writeEEPROM call on one of the three slots.
SlotWrite == op.name = "writeEEPROM" /\ op.a \in {5, 6, 8}

IsDelay(e, d) == e.k = "delay" /\ e.val = d
Wrote(e, reg, val) == e.k = "write" /\ e.reg = reg /\ e.val = val

(* C6, as stated: a writeEEPROM call on a valid slot whose bus writes all
   succeed makes exactly four steps: the unlock write, the settle wait, the
   data write and the lock write. *)
C6_FourSteps ==
    (pc = "idle" /\ SlotWrite /\ AllOk(log)) =>
        /\ Len(log) = 4
        /\ Wrote(log[1], 4, 32768)
        /\ log[2].k = "delay"
        /\ Wrote(log[3], op.a, op.b)
        /\ Wrote(log[4], 4, 0)

(* C6, amended: such a call makes exactly six steps: the unlock write, the
   2-unit settle wait, the data write, the 10-unit programming wait, the
   lock write and a last 2-unit wait. *)
C6_SixSteps ==
    (pc = "idle" /\ SlotWrite /\ AllOk(log)) =>
        /\ Len(log) = 6
        /\ Wrote(log[1], 4, 32768)
        /\ IsDelay(log[2], 2)
        /\ Wrote(log[3], op.a, op.b)
        /\ IsDelay(log[4], 10)
        /\ Wrote(log[5], 4, 0)
        /\ IsDelay(log[6], 2)

C6_Witness ==
    /\ pc = "idle"
    /\ SlotWrite
    /\ AllOk(log)
    /\ op.a = 6
    /\ regs[6] = 4660
    /\ now = 14

(* C7: when the unlock write and the data write succeed and the lock write
   fails, writeEEPROM returns failure, the slot holds the new value and the
   lock-control register holds 0x8000. *)
C7_LockFailureReported ==
    (/\ pc = "idle"
     /\ SlotWrite
     /\ Len(log) >= 5
     /\ log[1].ok
     /\ log[3].ok
     /\ ~log[5].ok) =>
        /\ ret = FALSE
        /\ regs[op.a] = op.b
        /\ regs[4] = 32768

(* C8: in a writeEEPROM call the data write comes only after an accepted
   unlock write and at least 2 time units later; the lock write comes only
   after the data write and at least 10 time units later, with no bus
   transaction between the two. *)
C8_WaitsElapse ==
    op.name = "writeEEPROM" =>
        \A i \in DOMAIN log :
            /\ (log[i].k = "write" /\ log[i].reg \in {5, 6, 8}) =>
                  \E j \in 1..(i - 1) :
                      /\ Wrote(log[j], 4, 32768)
                      /\ log[j].ok
                      /\ log[i].t - log[j].t >= 2
            /\ Wrote(log[i], 4, 0) =>
                  \E j \in 1..(i - 1) :
                      /\ log[j].k = "write" /\ log[j].reg \in {5, 6, 8}
                      /\ log[i].t - log[j].t >= 10
                      /\ \A m \in (j + 1)..(i - 1) : log[m].k = "delay"

C8_Witness ==
    /\ pc = "lock_delay"
    /\ SlotWrite
    /\ Len(log) = 5
    /\ log[3].t = 2
    /\ log[5].t = 12

(* C9: a writeEEPROM call stops at the first refused write.  After a
   refused unlock write it has returned failure with no other step, the
   slot and the lock-control register as they were; after an accepted
   unlock write and a refused data write it has returned failure with no
   lock write, the lock-control register holding 0x8000 and the slot its
   old value. *)
C9_NoRollback ==
    (pc = "idle" /\ SlotWrite) =>
        /\ ~log[1].ok =>
              /\ ret = FALSE
              /\ Len(log) = 1
              /\ regs[op.a] = regs0[op.a]
              /\ regs[4] = regs0[4]
        /\ (Len(log) >= 3 /\ log[1].ok /\ ~log[3].ok) =>
              /\ ret = FALSE
              /\ Len(log) = 3
              /\ regs[4] = 32768
              /\ regs[op.a] = regs0[op.a]

C9_Witness ==
    /\ pc = "idle"
    /\ SlotWrite
    /\ Len(log) = 3
    /\ ~log[3].ok
    /\ regs0[4] = 0
    /\ regs[4] = 32768

(* C10: in a writeEEPROM call on a valid slot, register 0x04 holds 0x8000
   from the accepted unlock write until the lock write, so when the slot
   write is issued; and a call whose writes all succeed, started with 0x0000
   in register 0x04, returns true with 0x0000 there again and the requested
   value in the slot. *)
C10_LockCycle ==
    SlotWrite =>
        /\ pc \in {"unlock_delay", "write_slot", "program_delay", "lock"} =>
              regs[4] = 32768
        /\ (pc = "idle" /\ AllOk(log) /\ regs0[4] = 0) =>
              /\ ret = TRUE
              /\ regs[4] = 0
              /\ regs[op.a] = op.b

C10_Witness ==
    /\ pc = "idle"
    /\ SlotWrite
    /\ AllOk(log)
    /\ regs0[4] = 0
    /\ ret = TRUE
    /\ regs[8] = 65535
    /\ regs0[8] = 170

\* The lowest bit and the width of each field, and the field of a word.
FieldLow(setter) ==
    CASE setter = "setMode" -> 10
      [] setter = "setConversionRate" -> 7
      [] setter = "setAveraging" -> 5
      [] setter = "setThermAlertMode" -> 4
      [] setter = "setAlertPolarity" -> 3

FieldWidth(setter) ==
    CASE setter = "setMode" -> 2
      [] setter = "setConversionRate" -> 3
      [] setter = "setAveraging" -> 2
      [] setter = "setThermAlertMode" -> 1
      [] setter = "setAlertPolarity" -> 1

FieldOf(w, setter) == (w \div Pow2(FieldLow(setter))) % Pow2(FieldWidth(setter))

\* A setter call that got as far as its write.
SetterWrote == Over(Setters) /\ Len(log) = 2

(* C11, as stated: for each of the five setters and every argument v the
   field written is v modulo 2^width, and the call's result is that of the
   bus write alone. *)
C11_AllMasked ==
    SetterWrote =>
        /\ FieldOf(log[2].val, op.name) = op.a % Pow2(FieldWidth(op.name))
        /\ ret = log[2].ok

(* C11, amended: setMode, setConversionRate, setAveraging and
   setThermAlertMode write v modulo 2^width; setAlertPolarity writes 1 for
   every non-zero v and 0 for v = 0; the call's result is that of the bus
   write alone. *)
C11_MaskedOrNonZero ==
    SetterWrote =>
        /\ FieldOf(log[2].val, op.name) =
              IF op.name = "setAlertPolarity"
              THEN (IF op.a = 0 THEN 0 ELSE 1)
              ELSE op.a % Pow2(FieldWidth(op.name))
        /\ ret = log[2].ok

C11_Witness ==
    /\ SetterWrote
    /\ op.name = "setAlertPolarity"
    /\ op.a = 2
    /\ ret = TRUE
    /\ BitOf(regs0[1], 3) = 0
    /\ BitOf(regs[1], 3) = 1

(* C12: when another master writes the configuration register between a
   setter's read and its write and the setter's write succeeds, the setter
   returns success, the register holds the word the setter read on every
   bit outside the setter's field, and the field holds the setter's value:
   what the other master wrote outside the field is gone. *)
C12_LostUpdate ==
    (SetterWrote /\ lastSet.st = "lost") =>
        /\ ret = TRUE
        /\ IsRead(log[1], 1) /\ log[1].ok
        /\ IsWrite(log[2], 1) /\ log[2].ok
        /\ \A i \in (0..15) \ FieldBits(op.name) :
              BitOf(regs[1], i) = BitOf(log[1].val, i)
        /\ regs[1] = log[2].val

\* Two setters of different fields interleave and the register ends with
\* the update of one only: the other setter's field is as it was read.
C12_Witness ==
    /\ SetterWrote
    /\ lastSet.st = "lost"
    /\ ret = TRUE
    /\ \E n \in Setters \ {op.name} :
        /\ FieldOf(lastSet.pre, n) # FieldOf(log[1].val, n)
        /\ \A i \in (0..15) \ FieldBits(n) :
              BitOf(lastSet.pre, i) = BitOf(log[1].val, i)
        /\ FieldOf(regs[1], n) = FieldOf(log[1].val, n)
    /\ FieldOf(regs[1], op.name) # FieldOf(log[1].val, op.name)

(* C13: a reset call makes exactly one bus transaction, a write of 0x8000
   to register 0x01 with no read before it, whatever the registers hold,
   and returns success exactly when that write succeeds. *)
C13_ResetOneWrite ==
    Over({"reset"}) =>
        /\ Len(log) = 1
        /\ IsWrite(log[1], 1)
        /\ log[1].val = 32768
        /\ log[1].addr = address
        /\ ret = log[1].ok
        /\ regs[1] = IF ret THEN 32768 ELSE regs0[1]

C13_Witness ==
    /\ Over({"reset"})
    /\ ret = TRUE
    /\ regs0[1] = 42405
    /\ regs[1] = 32768
    /\ Len(log) = 1

\* The register each temperature setter owns.
OwnReg(setter) ==
    CASE setter = "setHighLimit" -> 2
      [] setter = "setLowLimit" -> 3
      [] setter = "setOffset" -> 7

(* C14: setHighLimit, setLowLimit and setOffset each make exactly one bus
   transaction, a write of a 16-bit code to their own register (0x02, 0x03,
   0x07), with no read; the configuration register and the two other
   temperature-scaled registers are neither read nor written. *)
C14_DirectWrite ==
    Over(TempSetters) =>
        /\ Len(log) = 1
        /\ IsWrite(log[1], OwnReg(op.name))
        /\ log[1].val \in 0..65535
        /\ ret = log[1].ok
        /\ \A r \in RegAddrs \ {OwnReg(op.name)} : regs[r] = regs0[r]
        /\ regs[OwnReg(op.name)] =
              IF ret THEN log[1].val ELSE regs0[OwnReg(op.name)]

C14_Witness ==
    /\ Over({"setOffset"})
    /\ ret = TRUE
    /\ Len(log) = 1
    /\ regs[7] # regs0[7]
    /\ regs[2] = regs0[2] /\ regs[3] = regs0[3] /\ regs[1] = regs0[1]
    /\ regs[2] # regs[7]

\* One degree Celsius, 128 LSB, in the parts a Celsius value is counted in.
OneDegree == 128 * SubLSB

Abs(x) == IF x >= 0 THEN x ELSE -x

(* C15: for every signed 16-bit code, celsiusToRaw(rawToCelsius(code)) is
   within 1 of the code and equal to it; rawToCelsius(0) = 0.0,
   rawToCelsius(128) = 1.0 and rawToCelsius(-128) = -1.0.  The first
   conjunct is about the two functions alone and is evaluated in the
   initial states; the second is the same on the value a getter hands to
   the caller for the code it read. *)
C15_CodecRoundTrip ==
    /\ calls = 0 =>
        /\ \A code \in -32768..32767 :
              /\ Abs(celsiusToRaw(rawToCelsius(code)) - code) <= 1
              /\ celsiusToRaw(rawToCelsius(code)) = code
        /\ rawToCelsius(0) = 0
        /\ rawToCelsius(128) = OneDegree
        /\ rawToCelsius(-128) = -OneDegree
    /\ (Over(TempGetters) /\ ret = TRUE) =>
        /\ celsiusToRaw(out) = ToInt16(log[1].val)
        /\ out * 128 = ToInt16(log[1].val) * OneDegree

C15_Witness ==
    /\ Over({"getLowLimit"})
    /\ ret = TRUE
    /\ log[1].val = 65408
    /\ out = -OneDegree
    /\ celsiusToRaw(out) = -128

\* A temperature setter is over whose argument, divided by the LSB, lies
\* within the int16 range; the code it sent, as a signed number.
QuotientInRange(t) == t >= -32768 * SubLSB /\ t <= 32767 * SubLSB
TempSetterWrote ==
    Over(TempSetters) /\ Len(log) = 1 /\ QuotientInRange(op.a)
CodeSent == ToInt16(log[1].val)

(* C16, as stated: the code the three setters write is the integer nearest
   to c / 0.0078125 (halves away from zero, as round() does). *)
C16_WritesNearest ==
    TempSetterWrote =>
        /\ 2 * Abs(op.a - CodeSent * SubLSB) <= SubLSB
        /\ (2 * Abs(op.a - CodeSent * SubLSB) = SubLSB) =>
              Abs(CodeSent * SubLSB) > Abs(op.a)

(* C16, amended: the code the three setters write is c / 0.0078125 with
   its fraction dropped: it is never further from zero than the quotient,
   less than one LSB away from it, and the nearest integer only when the
   fraction is below one half. *)
C16_WritesTruncated ==
    TempSetterWrote =>
        /\ Abs(CodeSent * SubLSB) <= Abs(op.a)
        /\ Abs(op.a - CodeSent * SubLSB) < SubLSB
        /\ op.a >= 0 => CodeSent >= 0
        /\ op.a <= 0 => CodeSent <= 0
        /\ (2 * Abs(op.a - CodeSent * SubLSB) >= SubLSB) =>
              Abs(CodeSent) * SubLSB < Abs(op.a)

\* c = -1.5 LSB is written as -1.
C16_Witness ==
    /\ TempSetterWrote
    /\ op.name = "setHighLimit"
    /\ ret = TRUE
    /\ 2 * op.a = -3 * SubLSB
    /\ regs[2] = 65535

(* C17: celsiusToRaw gives the integer part of q = c / 0.0078125, for
   positive and negative q alike, and never the nearest integer when the
   two differ: for every argument in range in the initial states, and in
   the code a setter sends. *)
IntegerPart(t, k) ==
    IF t >= 0
    THEN k * SubLSB <= t /\ t < (k + 1) * SubLSB
    ELSE (k - 1) * SubLSB < t /\ t <= k * SubLSB

C17_Truncates ==
    /\ calls = 0 =>
        \A t \in {x \in TempArgs : QuotientInRange(x)} :
            IntegerPart(t, celsiusToRaw(t))
    /\ TempSetterWrote => IntegerPart(op.a, CodeSent)

\* q = -1.75 gives -1.
C17_Witness ==
    /\ TempSetterWrote
    /\ op.name = "setOffset"
    /\ ret = TRUE
    /\ 4 * op.a = -7 * SubLSB
    /\ ToInt16(regs[7]) = -1

\* The transactions of kind k in the log of the call.
Count(k) == Cardinality({i \in DOMAIN log : log[i].k = k})

(* C18: a setter whose read of the configuration register fails returns
   failure after exactly that one transaction, with no write; a setter whose
   read succeeds and whose write fails returns failure after exactly one
   read and one write; no setter or getter issues a transaction twice. *)
C18_NoRetry ==
    /\ (Over(Setters) /\ Len(log) >= 1 /\ ~log[1].ok) =>
          /\ ret = FALSE
          /\ Len(log) = 1
          /\ IsRead(log[1], 1)
          /\ regs = regs0
    /\ (Over(Setters) /\ Len(log) >= 2 /\ ~log[2].ok) =>
          /\ ret = FALSE
          /\ Len(log) = 2
          /\ IsRead(log[1], 1) /\ log[1].ok
          /\ IsWrite(log[2], 1)
          /\ regs = regs0
    /\ op.name \in Setters \cup Getters =>
          /\ Count("read") <= 1
          /\ Count("write") <= 1
          /\ Count("delay") = 0
    /\ Over(Getters) => Len(log) = 1 /\ IsRead(log[1], 1)

C18_Witness ==
    /\ Over({"setMode"})
    /\ Len(log) = 2
    /\ log[1].ok
    /\ ~log[2].ok
    /\ ret = FALSE
    /\ calls = 1

(* C19: a failure is confined to its call.  No call other than begin
   changes the stored address; a call that returns false leaves the
   caller's variable and every register as it found them, except that a
   failed writeEEPROM may leave the unlock register written; and the same
   EEPROM call made again right after its failure, with every transaction
   acknowledged, returns success with the effect of a first call:
   writeEEPROM leaves the value in the slot and the EEPROM locked,
   readEEPROM hands the slot's value to the caller. *)
C19_State ==
    /\ (pc = "idle" /\ calls > 0 /\ ret = FALSE) =>
          /\ out = out0
          /\ \A r \in RegAddrs \ {4} : regs[r] = regs0[r]
          /\ op.name # "writeEEPROM" => regs = regs0
    /\ (pc = "idle" /\ op.again /\ op.name # "begin" /\ log # <<>> /\ AllOk(log)) =>
          /\ ret = TRUE
          /\ op.name = "writeEEPROM" =>
                /\ regs = [regs0 EXCEPT ![op.a] = op.b, ![4] = 0]
                /\ out = out0
          /\ op.name = "readEEPROM" =>
                /\ regs = regs0
                /\ out = regs0[op.a]

C19_FailurePerCall ==
    /\ []C19_State
    /\ [][op'.name # "begin" => address' = address]_vars

\* writeEEPROM failed at the slot write, leaving the EEPROM unlocked, and
\* is made again with success.
C19_Witness ==
    /\ Over({"writeEEPROM"})
    /\ op.again
    /\ ret = TRUE
    /\ AllOk(log)
    /\ regs0[4] = 32768
    /\ regs[4] = 0
    /\ regs[op.a] = op.b
    /\ regs0[op.a] # op.b

(* C20: every getDeviceID call, before or after begin and whatever begin
   returned, makes exactly one read of register 0x0F and, when the read
   succeeds, hands the caller the word the device holds at that moment;
   a device whose identity changed between two calls is reported with its
   new identity by the second. *)
C20_FreshIdentity ==
    Over({"getDeviceID"}) =>
        /\ Len(log) = 1
        /\ IsRead(log[1], 15)
        /\ log[1].addr = address
        /\ ret = log[1].ok
        /\ out = IF ret THEN regs0[15] ELSE out0
        /\ ret => log[1].val = regs0[15]

\* The second of two calls returns the identity that replaced the one the
\* first call returned.
C20_Witness ==
    /\ Over({"getDeviceID"})
    /\ calls = 2
    /\ ext = 1
    /\ ret = TRUE
    /\ out0 = 279
    /\ out = 4374
    /\ regs0[15] = 4374

\* The setter of the field a getter reads.
SetterOf(getter) == CHOOSE st \in Setters : GetterOf(st) = getter

(* C21: each of the five configuration getters makes exactly one read of
   register 0x01 and no write, changes no register, and on success hands
   the caller (cfg >> shift) & mask, with shift/mask 10/0x03, 7/0x07,
   5/0x03, 4/0x01 and 3/0x01, a value in 0..2^width-1 whatever the
   register holds; on failure it returns false. *)
C21_GetterField ==
    Over(Getters) =>
        /\ Len(log) = 1
        /\ IsRead(log[1], 1)
        /\ regs = regs0
        /\ ret = log[1].ok
        /\ ret =>
              /\ log[1].val = regs0[1]
              /\ out = FieldOf(regs0[1], SetterOf(op.name))
              /\ out \in 0..(Pow2(FieldWidth(SetterOf(op.name))) - 1)

C21_Witness ==
    /\ Over({"getMode"})
    /\ ret = TRUE
    /\ regs0[1] = 65535
    /\ out = 3
    /\ Len(log) = 1

\* What the sensor keeps of a word sent to it, and what readReg makes of
\* the two bytes the sensor sends back.
OverTheBus(w) ==
    LET kept == HiByte(w) * 256 + LoByte(w)
    IN  ((kept \div 256) % 256) * 256 + (kept % 256)

(* C22: for every code k in -32768..32767 and each of the high limit, the
   low limit and the offset, setting the register to k * 0.0078125 degrees
   and reading it with the matching getter gives exactly k * 0.0078125
   degrees, for negative k too.  The first conjunct is the chain of
   conversions for every code, evaluated in the initial states; the second
   is a getter call that follows its setter. *)
C22_LimitRoundTrip ==
    /\ calls = 0 =>
        \A k \in -32768..32767 :
            rawToCelsius(ToInt16(OverTheBus(ToUint16(celsiusToRaw(k * SubLSB)))))
                = k * SubLSB
    /\ (/\ Over({"getHighLimit", "getLowLimit", "getOffset"})
        /\ ret = TRUE
        /\ op.after # <<>>
        /\ OwnReg(op.after[1]) = log[1].reg
        /\ op.after[2] % SubLSB = 0
        /\ QuotientInRange(op.after[2])) =>
            out = op.after[2]

C22_Witness ==
    /\ Over({"getLowLimit"})
    /\ ret = TRUE
    /\ op.after = <<"setLowLimit", -OneDegree>>
    /\ regs0[3] = 65408
    /\ log[1].reg = 3
    /\ out = -OneDegree

(* C23: a register read is the register address sent without a stop
   condition, then a request for exactly 2 bytes; when the address phase is
   not acknowledged no request is made and the read fails; when fewer or
   more than 2 bytes come back the read fails; and a call whose read fails
   leaves the caller's variable as it was. *)
C23_ReadTransaction ==
    /\ \A i \in DOMAIN log :
          log[i].k = "read" =>
              /\ ~log[i].stop
              /\ log[i].req <=> log[i].ack
              /\ log[i].want = IF log[i].ack THEN 2 ELSE 0
              /\ ~log[i].ack => log[i].n = 0
              /\ log[i].ok <=> (log[i].ack /\ log[i].n = 2)
    /\ (pc = "idle" /\ log # <<>> /\ log[1].k = "read" /\ ~log[1].ok) =>
          out = out0

\* Three bytes came back: the read fails and the caller keeps its value.
C23_Witness ==
    /\ pc = "idle"
    /\ op.name = "readEEPROM"
    /\ Len(log) = 1
    /\ log[1].ack
    /\ log[1].n = 3
    /\ ~log[1].ok
    /\ ret = FALSE
    /\ out = out0

(* C24: once begin has been called, every bus transaction is addressed to
   the address given to the most recent begin call, whether that call
   returned true or false: a begin(a2) that fails on an object that was
   ready at a1 sends all later calls to a2. *)
C24_LastBeginAddress ==
    op.begun # -1 =>
        /\ \A i \in DOMAIN log :
              log[i].k \in {"read", "write"} => log[i].addr = op.begun
        /\ address = op.begun

\* begin(0x48) returned true, begin(0x49) returned false, and the call
\* after them goes to 0x49.
C24_Witness ==
    /\ Over({"getDeviceID"})
    /\ op.readyAt = 72
    /\ op.begun = 73
    /\ Len(log) = 1
    /\ log[1].addr = 73
    /\ ret = FALSE

\* The calls that hand a value to the caller through a reference.
ValueCalls ==
    {"readRawTemperature", "readTemperatureC", "readTemperatureF",
     "readConfig", "getMode", "getConversionRate", "getAveraging",
     "getThermAlertMode", "getAlertPolarity", "getHighLimit", "getLowLimit",
     "getOffset", "readEEPROM", "getDeviceID"}

(* C25: when the register read of a value-returning call fails, the call
   returns failure, makes no further transaction, and the caller's variable
   holds what it held before the call. *)
C25_OutputKept ==
    (/\ Over(ValueCalls)
     /\ \E i \in DOMAIN log : ~log[i].ok) =>
        /\ ret = FALSE
        /\ Len(log) = 1
        /\ log[1].k = "read"
        /\ out = out0
        /\ regs = regs0

\* A short read of the temperature leaves the caller's variable as it was.
C25_Witness ==
    /\ Over({"readTemperatureF"})
    /\ calls = 1
    /\ ret = FALSE
    /\ log[1].ack
    /\ log[1].n = 1
    /\ out0 = 43605
    /\ out = 43605

====
